---- MODULE Spec2Model ----
(***************************************************************************)
(* A model of Blob / BlobView / BlobSpan (src/Blob.hpp, src/Blob.cpp).     *)
(*                                                                         *)
(* The heap is a small array of regions; region r starts at address        *)
(* r * Stride, so that base + offset never reaches the next region for an  *)
(* offset up to the largest modelled size.  A Blob variable of the calling *)
(* program is a slot; a slot is "live" between its construction and its    *)
(* destruction.  Every action models one whole call of the public          *)
(* interface (or one step of the calling program on memory it owns) and    *)
(* records what the call did in op.                                        *)
(***************************************************************************)
EXTENDS Integers, Sequences, FiniteSets, TLC

\* ---------------------------------------------------------------- bounds
NumBlobs == 2       \* Blob variables of the calling program
NumRegions == 2     \* heap regions an allocator can hand out
MaxSize == 2        \* largest allocation size, in bytes
NumViews == 1       \* BlobView / BlobSpan variables of the calling program
MaxFrees == 2       \* the per-allocation count of deallocations saturates here
SizeBits == 2       \* the width of size_t, in bits

Slots == 1..NumBlobs
Regions == 1..NumRegions
ViewSlots == 1..NumViews
NULL == 0
Stride == MaxSize + 1
Addr(r) == r * Stride
RegionOf(p) == p \div Stride
OffsetOf(p) == p % Stride
Min(a, b) == IF a <= b THEN a ELSE b
SizeMod == 2 ^ SizeBits
\* size_t arithmetic: the result modulo 2^SizeBits.
Wrap(x) == x % SizeMod
Offsets == 0..(MaxSize + 1)     \* the offsets a caller passes

\* The bytes a caller writes into n bytes it allocates: 1, 2, ..., as the tests'
\* arrays {1, 2, 3, 4, 5}.
Numbers(n) == [i \in 1..n |-> i]

Zeros(n) == [i \in 1..n |-> 0]

\* The contents of n bytes nobody has written yet: indeterminate, and told apart
\* from every byte value.
Indeterminate(n) == [i \in 1..n |-> -1]

VARIABLES
  blobs,    \* slot -> [live, data, size]: the Blob variables (data_, size_)
  heap,     \* region -> the allocation at its address
  views,    \* view slot -> [kind, pointer, size]: BlobView / BlobSpan variables
  misuse,   \* history: a Blob adopted an address the caller did not own
  op        \* the last call: what it was given, returned, freed, how it ended

vars == <<blobs, heap, views, misuse, op>>

\* ------------------------------------------------------------------ heap
NoRegion ==
  [state |-> "unused", alloc |-> "none", bytes |-> <<>>, holder |-> "none",
   frees |-> 0, dealloc |-> "none"]

\* A fresh allocation at region r: made by `alloc`, held by `holder`.
Allocate(h, r, alloc, bytes, holder) ==
  [h EXCEPT ![r] = [state |-> "live", alloc |-> alloc, bytes |-> bytes,
                    holder |-> holder, frees |-> 0, dealloc |-> "none"]]

\* The deallocator that pairs with an allocator.
DeallocatorOf(alloc) == IF alloc = "new[]" THEN "delete[]" ELSE "free"

IsLive(h, p) ==
  p # NULL /\ RegionOf(p) \in Regions /\ h[RegionOf(p)].state = "live"

IsFreed(h, p) ==
  p # NULL /\ RegionOf(p) \in Regions /\ h[RegionOf(p)].state = "freed"

\* Addresses of live allocations the caller owns: obtained from the caller's
\* own allocation or from Blob::Release, and not yet freed or handed over.
CallerOwned(h) ==
  {Addr(r) : r \in {x \in Regions : h[x].state = "live" /\ h[x].holder = "caller"}}

\* std::malloc(n): a null pointer, or an address not in use (never allocated, or
\* freed and reused) with indeterminate contents.
Malloc(h, n, holder) ==
  {[ptr |-> NULL, heap |-> h]} \cup
  {[ptr |-> Addr(r), heap |-> Allocate(h, r, "malloc", Indeterminate(n), holder)] :
     r \in {x \in Regions : h[x].state # "live"}}

\* A deallocation call on p with deallocator `how`; a null p does nothing.
Deallocate(h, p, how) ==
  IF p = NULL THEN h
  ELSE [h EXCEPT ![RegionOf(p)] =
          [@ EXCEPT !.state = "freed", !.bytes = <<>>,
                    !.frees = Min(@ + 1, MaxFrees),
                    !.dealloc = IF h[RegionOf(p)].state = "live" THEN how ELSE @]]

\* std::free(p), Blob.cpp:54.
StdFree(h, p) == Deallocate(h, p, "free")

\* Whether std::free(p) is undefined: p is not a live std::malloc allocation.
FreeIsUndefined(h, p) ==
  p # NULL /\ ~(IsLive(h, p) /\ h[RegionOf(p)].alloc = "malloc")

\* ------------------------------------------------------------ assertions
\* ASSERT(cond): the call goes on when cond holds and aborts the process
\* otherwise.
ASSERT(cond) == cond

\* ------------------------------------------------------------------ Blob
NoBlob == [live |-> FALSE, data |-> NULL, size |-> 0]
NoView == [kind |-> "none", pointer |-> NULL, size |-> 0]

\* Blob::Blob(), Blob.hpp:450.
BlobDefaultOf == [live |-> TRUE, data |-> NULL, size |-> 0]

\* Blob::Empty, Blob.hpp:470.
Empty(b) == b.data = NULL \/ b.size = 0

\* Blob::Size and Blob::Data(), Blob.hpp:475, 488.
Size(b) == b.size
Data(b) == b.data

\* Mutant of ResetOf: std::free(data_) without the exchange, data_ left as it was.
ResetOfKeepingData(b) ==
  [freed |-> b.data, blob |-> [b EXCEPT !.size = 0]]

\* Blob::Reset on blob value b: the pointer handed to std::free and the blob after.
ResetOf(b) ==
  [freed |-> b.data, blob |-> [b EXCEPT !.data = NULL, !.size = 0]]

\* Mutant of ReleaseOf: the pair is returned and data_ is not set to null.
ReleaseOfKeepingData(b) ==
  [ret |-> <<b.data, b.size>>, blob |-> [b EXCEPT !.size = 0]]

\* Blob::Release on blob value b: the returned pair and the blob after.
ReleaseOf(b) ==
  [ret |-> <<b.data, b.size>>, blob |-> [b EXCEPT !.data = NULL, !.size = 0]]

\* Mutant of MoveOf: the members are copied, not exchanged with null and 0.
MoveOfKeepingOther(other) ==
  [blob |-> [live |-> TRUE, data |-> other.data, size |-> other.size],
   other |-> other]

\* The member initialisers of Blob::Blob(Blob&& other): the new blob and other after.
MoveOf(other) ==
  [blob |-> [live |-> TRUE, data |-> other.data, size |-> other.size],
   other |-> [other EXCEPT !.data = NULL, !.size = 0]]

\* The addresses a call passed to std::free, as a sequence without nulls.
Freed(p) == IF p = NULL THEN <<>> ELSE <<p>>

Running == op.outcome = "ok"

Call(name, blob, other, ret, freed, outcome) ==
  [name |-> name, blob |-> blob, other |-> other, ret |-> ret,
   freed |-> freed, outcome |-> outcome]

\* The outcomes of a call that ran into undefined behaviour, or did not.
Outcomes(undefined) == IF undefined THEN {"ok", "crash"} ELSE {"ok"}

Init ==
  /\ blobs = [d \in Slots |-> NoBlob]
  /\ heap = [r \in Regions |-> NoRegion]
  /\ views = [v \in ViewSlots |-> NoView]
  /\ misuse = FALSE
  /\ op = Call("start", 0, 0, <<0, 0>>, <<>>, "ok")

\* Blob blob;
BlobDefault(d) ==
  /\ Running /\ ~blobs[d].live
  /\ blobs' = [blobs EXCEPT ![d] = BlobDefaultOf]
  /\ op' = Call("Blob", d, 0, <<0, 0>>, <<>>, "ok")
  /\ UNCHANGED <<heap, views, misuse>>

\* Blob blob(n);
BlobSized(d, n) ==
  /\ Running /\ ~blobs[d].live
  /\ IF ~ASSERT(n # 0)
     THEN /\ op' = Call("BlobSized", d, 0, <<0, 0>>, <<>>, "violation")
          /\ UNCHANGED <<blobs, heap>>
     ELSE \E m \in Malloc(heap, n, "blob") :
            /\ blobs' = [blobs EXCEPT ![d] = [live |-> TRUE, data |-> m.ptr, size |-> n]]
            /\ heap' = m.heap
            /\ op' = Call("BlobSized", d, 0, <<m.ptr, n>>, <<>>, "ok")
  /\ UNCHANGED <<views, misuse>>

\* blob.Reset();
Reset(d) ==
  /\ Running /\ blobs[d].live
  /\ LET r == ResetOf(blobs[d]) IN
       /\ blobs' = [blobs EXCEPT ![d] = r.blob]
       /\ heap' = StdFree(heap, r.freed)
       /\ \E o \in Outcomes(FreeIsUndefined(heap, r.freed)) :
            op' = Call("Reset", d, 0, <<0, 0>>, Freed(r.freed), o)
  /\ UNCHANGED <<views, misuse>>

\* The body of Blob::Blob(void* data, size_t size): whether both assertions
\* pass, and the blob constructed when they do.
AdoptOf(data, size) ==
  [ok |-> ASSERT(data # NULL) /\ ASSERT(size # 0),
   blob |-> [live |-> TRUE, data |-> data, size |-> size]]

\* The delegation of Blob::Blob(std::unique_ptr<T[]>&& buffer, size_t elements),
\* with buffer holding address p and sizeof(T) = sizeofT.
AdoptUniqueOf(p, sizeofT, elements) == AdoptOf(p, sizeofT * elements)

\* The ownership an adopted address passes to: the allocation is now a Blob's.
HandOver(h, p, holder) ==
  IF p # NULL /\ RegionOf(p) \in Regions
  THEN [h EXCEPT ![RegionOf(p)].holder = holder]
  ELSE h

\* The allocation sizes a caller states for address p: its real size, or 0.
StatedSizes(h, p) == IF p = NULL THEN 0..MaxSize ELSE {0, Len(h[RegionOf(p)].bytes)}

\* Blob blob(p, n); with p memory the caller owns (or null).
BlobAdopt(d, p, n) ==
  /\ Running /\ ~blobs[d].live
  /\ LET a == AdoptOf(p, n) IN
       IF ~a.ok
       THEN /\ op' = Call("BlobAdopt", d, 0, <<0, 0>>, <<>>, "violation")
            /\ UNCHANGED <<blobs, heap>>
       ELSE /\ blobs' = [blobs EXCEPT ![d] = a.blob]
            /\ heap' = HandOver(heap, p, "blob")
            /\ op' = Call("BlobAdopt", d, 0, <<p, n>>, <<>>, "ok")
  /\ UNCHANGED <<views, misuse>>

\* Blob blob(std::move(buffer), elements); with buffer a unique_ptr<T[]> holding
\* p, memory of new T[] (or null).
BlobAdoptUnique(d, p, sizeofT, elements) ==
  /\ Running /\ ~blobs[d].live
  /\ LET a == AdoptUniqueOf(p, sizeofT, elements) IN
       IF ~a.ok
       THEN /\ op' = Call("BlobAdoptUnique", d, 0, <<0, 0>>, <<>>, "violation")
            /\ UNCHANGED <<blobs, heap>>
       ELSE /\ blobs' = [blobs EXCEPT ![d] = a.blob]
            /\ heap' = HandOver(heap, p, "blob")
            /\ op' = Call("BlobAdoptUnique", d, 0, <<p, sizeofT * elements>>, <<>>, "ok")
  /\ UNCHANGED <<views, misuse>>

\* Blob blob(other.Data(), other.Size()); the caller adopts an address it read
\* through Data() of a live Blob, which still holds it.
BlobAdoptData(d, s) ==
  /\ Running /\ ~blobs[d].live /\ blobs[s].live
  /\ LET a == AdoptOf(Data(blobs[s]), Size(blobs[s])) IN
       IF ~a.ok
       THEN /\ op' = Call("BlobAdoptData", d, s, <<0, 0>>, <<>>, "violation")
            /\ UNCHANGED <<blobs, misuse>>
       ELSE /\ blobs' = [blobs EXCEPT ![d] = a.blob]
            /\ misuse' = TRUE
            /\ op' = Call("BlobAdoptData", d, s, <<a.blob.data, a.blob.size>>, <<>>, "ok")
  /\ UNCHANGED <<heap, views>>

\* Blob blob(std::move(other));
BlobMove(d, s) ==
  /\ Running /\ ~blobs[d].live /\ blobs[s].live
  /\ LET m == MoveOf(blobs[s]) IN
       blobs' = [blobs EXCEPT ![d] = m.blob, ![s] = m.other]
  /\ op' = Call("BlobMove", d, s, <<0, 0>>, <<>>, "ok")
  /\ UNCHANGED <<heap, views, misuse>>

\* Mutant of MoveAssignOf: the exchanges without the Reset() before them.
MoveAssignOfNoReset(bs, d, s) ==
  LET data == bs[s].data
      b2 == [bs EXCEPT ![s].data = NULL]
      b3 == [b2 EXCEPT ![d].data = data]
      size == b3[s].size
      b4 == [b3 EXCEPT ![s].size = 0]
      b5 == [b4 EXCEPT ![d].size = size]
  IN [freed |-> NULL, blobs |-> b5]

\* Mutant of MoveAssignOf: other's members are read before the Reset() and
\* stored after it.
MoveAssignOfSavingOther(bs, d, s) ==
  LET data == bs[s].data
      size == bs[s].size
      r == ResetOf(bs[d])
      b1 == [bs EXCEPT ![d] = r.blob]
      b2 == [b1 EXCEPT ![s].data = NULL, ![s].size = 0]
      b3 == [b2 EXCEPT ![d].data = data, ![d].size = size]
  IN [freed |-> r.freed, blobs |-> b3]

\* Blob::operator=(Blob&& other) on the blob variables bs, to slot d from slot s
\* (which may be d itself): Reset(), then the two exchanges, in the code's order.
MoveAssignOf(bs, d, s) ==
  LET r == ResetOf(bs[d])
      b1 == [bs EXCEPT ![d] = r.blob]
      data == b1[s].data
      b2 == [b1 EXCEPT ![s].data = NULL]
      b3 == [b2 EXCEPT ![d].data = data]
      size == b3[s].size
      b4 == [b3 EXCEPT ![s].size = 0]
      b5 == [b4 EXCEPT ![d].size = size]
  IN [freed |-> r.freed, blobs |-> b5]

\* blob = std::move(other);
MoveAssign(d, s) ==
  /\ Running /\ blobs[d].live /\ blobs[s].live
  /\ LET m == MoveAssignOf(blobs, d, s) IN
       /\ blobs' = m.blobs
       /\ heap' = StdFree(heap, m.freed)
       /\ \E o \in Outcomes(FreeIsUndefined(heap, m.freed)) :
            op' = Call("MoveAssign", d, s, <<0, 0>>, Freed(m.freed), o)
  /\ UNCHANGED <<views, misuse>>

\* The end of a Blob variable's lifetime: Blob::~Blob.
Destroy(d) ==
  /\ Running /\ blobs[d].live
  /\ LET r == ResetOf(blobs[d]) IN
       /\ blobs' = [blobs EXCEPT ![d] = NoBlob]
       /\ heap' = StdFree(heap, r.freed)
       /\ \E o \in Outcomes(FreeIsUndefined(heap, r.freed)) :
            op' = Call("Destroy", d, 0, <<0, 0>>, Freed(r.freed), o)
  /\ UNCHANGED <<views, misuse>>

\* Mutant of SwapOf: second is assigned from first after first was overwritten.
SwapOfCopying(bs, a, b) ==
  LET b1 == [bs EXCEPT ![a].data = bs[b].data]
      b2 == [b1 EXCEPT ![b].data = b1[a].data]
      b3 == [b2 EXCEPT ![a].size = b2[b].size]
  IN [b3 EXCEPT ![b].size = b3[a].size]

\* swap(first, second) on the blob variables bs.
SwapOf(bs, a, b) ==
  LET b1 == [bs EXCEPT ![a].data = bs[b].data, ![b].data = bs[a].data]
  IN [b1 EXCEPT ![a].size = b1[b].size, ![b].size = b1[a].size]

\* swap(first, second);
Swap(a, b) ==
  /\ Running /\ blobs[a].live /\ blobs[b].live
  /\ blobs' = SwapOf(blobs, a, b)
  /\ op' = Call("swap", a, b, <<0, 0>>, <<>>, "ok")
  /\ UNCHANGED <<heap, views, misuse>>

\* auto pair = blob.Release(); the caller now holds the pair.
Release(d) ==
  /\ Running /\ blobs[d].live
  /\ LET r == ReleaseOf(blobs[d]) IN
       /\ blobs' = [blobs EXCEPT ![d] = r.blob]
       /\ heap' = HandOver(heap, r.ret[1], "caller")
       /\ op' = Call("Release", d, 0, r.ret, <<>>, "ok")
  /\ UNCHANGED <<views, misuse>>

\* The n bytes std::memcpy reads at p: the allocation's bytes, or indeterminate
\* ones when p is not n bytes of a live allocation.
BytesAt(h, p, n) ==
  IF IsLive(h, p) /\ OffsetOf(p) = 0 /\ Len(h[RegionOf(p)].bytes) >= n
  THEN SubSeq(h[RegionOf(p)].bytes, 1, n)
  ELSE Indeterminate(n)

\* Whether Blob::Copy takes the allocating branch, Blob.cpp:60.
CopyAllocates(b) == b.data # NULL /\ b.size > 0

\* Blob copy = blob.Copy(); the result is constructed in slot d.
Copy(d, s) ==
  /\ Running /\ ~blobs[d].live /\ blobs[s].live
  /\ IF CopyAllocates(blobs[s])
     THEN \E m \in Malloc(heap, blobs[s].size, "blob") :
            \* Blob result(size_), then std::memcpy(result.data_, data_, size_):
            \* writing through a null result.data_ is undefined.
            \E o \in Outcomes(m.ptr = NULL \/ ~IsLive(heap, blobs[s].data)) :
              /\ blobs' = [blobs EXCEPT ![d] =
                             [live |-> TRUE, data |-> m.ptr, size |-> blobs[s].size]]
              /\ heap' = IF m.ptr = NULL THEN m.heap
                         ELSE [m.heap EXCEPT ![RegionOf(m.ptr)].bytes =
                                 BytesAt(heap, blobs[s].data, blobs[s].size)]
              /\ op' = Call("Copy", d, s, <<m.ptr, blobs[s].size>>, <<>>, o)
     ELSE /\ blobs' = [blobs EXCEPT ![d] = BlobDefaultOf]
          /\ heap' = heap
          /\ op' = Call("Copy", d, s, <<NULL, 0>>, <<>>, "ok")
  /\ UNCHANGED <<views, misuse>>

\* Whether Blob::Clear writes, Blob.cpp:71.
ClearWrites(b) == b.data # NULL /\ b.size > 0

\* blob.Clear();
Clear(d) ==
  /\ Running /\ blobs[d].live
  /\ IF ClearWrites(blobs[d]) /\ IsLive(heap, blobs[d].data)
     THEN /\ heap' = [heap EXCEPT ![RegionOf(blobs[d].data)].bytes =
                        Zeros(blobs[d].size)]
          /\ op' = Call("Clear", d, 0, <<0, 0>>, <<>>, "ok")
     ELSE /\ heap' = heap
          /\ \E o \in Outcomes(ClearWrites(blobs[d])) :
               op' = Call("Clear", d, 0, <<0, 0>>, <<>>, o)
  /\ UNCHANGED <<blobs, views, misuse>>

\* The caller allocates n bytes itself: std::malloc, new T[n] or
\* std::make_unique<T[]>(n), as the tests do before adopting.
CallerAlloc(alloc, r, n) ==
  /\ Running /\ heap[r].state # "live"
  /\ heap' = Allocate(heap, r, alloc, Numbers(n), "caller")
  /\ op' = Call("CallerAlloc", 0, 0, <<Addr(r), n>>, <<>>, "ok")
  /\ UNCHANGED <<blobs, views, misuse>>

\* The caller frees memory it owns with the deallocator of its allocator, as the
\* test does with a released pair: std::free(pair.first).
CallerFree(p) ==
  /\ Running /\ p \in CallerOwned(heap)
  /\ heap' = Deallocate(heap, p, DeallocatorOf(heap[RegionOf(p)].alloc))
  /\ op' = Call("CallerFree", 0, 0, <<0, 0>>, <<>>, "ok")
  /\ UNCHANGED <<blobs, views, misuse>>

\* ------------------------------------------------------ BlobView, BlobSpan
\* Mutant of BlobDataAt: without the assertion on data_.
BlobDataAtAnyAddress(b, offset) ==
  [ok |-> ASSERT(offset <= b.size), ptr |-> b.data + offset]

\* Blob::Data(offset), Blob.hpp:498-510: whether both assertions pass, and the
\* address returned.
BlobDataAt(b, offset) ==
  [ok |-> ASSERT(b.data # NULL) /\ ASSERT(offset <= b.size),
   ptr |-> b.data + offset]

\* Blob::View(offset) and Blob::Span(offset), Blob.hpp:538-552.
BlobViewOf(b, kind, offset) ==
  [ok |-> BlobDataAt(b, offset).ok,
   view |-> [kind |-> kind, pointer |-> BlobDataAt(b, offset).ptr,
             size |-> Wrap(b.size - offset)]]

\* Mutant of ViewDataAt: the access also checks that the memory is still allocated.
ViewDataAtLive(v, offset) ==
  [ok |-> ASSERT(offset <= v.size) /\ ~IsFreed(heap, v.pointer),
   ptr |-> v.pointer + offset]

\* BlobView::Data(offset) and BlobSpan::Data(offset), Blob.hpp:311-315, 403-407.
ViewDataAt(v, offset) ==
  [ok |-> ASSERT(offset <= v.size), ptr |-> v.pointer + offset]

\* BlobView::Pointer<T>(offset) and BlobSpan::Pointer<T>(offset),
\* Blob.hpp:317-322, 409-414.
ViewPointer(v, offset) ==
  [ok |-> ASSERT(offset <= v.size) /\ ViewDataAt(v, offset).ok,
   ptr |-> ViewDataAt(v, offset).ptr]

\* Mutant of SubViewOf: the result keeps the parent's size.
SubViewOfFullSize(v, offset) ==
  [ok |-> ASSERT(offset <= v.size) /\ ViewDataAt(v, offset).ok,
   view |-> [kind |-> v.kind, pointer |-> ViewDataAt(v, offset).ptr, size |-> v.size]]

\* BlobView::SubView(offset) and BlobSpan::SubSpan(offset), Blob.hpp:330-334,
\* 422-426.
SubViewOf(v, offset) ==
  [ok |-> ASSERT(offset <= v.size) /\ ViewDataAt(v, offset).ok,
   view |-> [kind |-> v.kind, pointer |-> ViewDataAt(v, offset).ptr,
             size |-> Wrap(v.size - offset)]]

\* Mutant of SliceOf: end is taken as the result's size.
SliceOfEndAsSize(v, begin, end) ==
  [ok |-> ASSERT(begin <= v.size) /\ ASSERT(end <= v.size) /\ ViewDataAt(v, begin).ok,
   view |-> [kind |-> v.kind, pointer |-> ViewDataAt(v, begin).ptr, size |-> end]]

\* Mutant of SliceOf: with the assertion begin <= end the code does not make.
SliceOfOrdered(v, begin, end) ==
  [ok |-> ASSERT(begin <= v.size) /\ ASSERT(end <= v.size) /\ ASSERT(begin <= end)
            /\ ViewDataAt(v, begin).ok,
   view |-> [kind |-> v.kind, pointer |-> ViewDataAt(v, begin).ptr,
             size |-> Wrap(end - begin)]]

\* BlobView::Slice(begin, end) and BlobSpan::Slice(begin, end), Blob.hpp:342-347,
\* 434-439.
SliceOf(v, begin, end) ==
  [ok |-> ASSERT(begin <= v.size) /\ ASSERT(end <= v.size) /\ ViewDataAt(v, begin).ok,
   view |-> [kind |-> v.kind, pointer |-> ViewDataAt(v, begin).ptr,
             size |-> Wrap(end - begin)]]

\* Whether the n bytes at p lie in a live allocation.
Readable(h, p, n) ==
  /\ IsLive(h, p)
  /\ OffsetOf(p) + n <= Len(h[RegionOf(p)].bytes)

Passed(ok) == IF ok THEN "ok" ELSE "violation"

\* view = blob.View(offset); or span = blob.Span(offset);
TakeView(v, d, kind, offset) ==
  /\ Running /\ blobs[d].live
  /\ LET r == BlobViewOf(blobs[d], kind, offset) IN
       /\ views' = IF r.ok THEN [views EXCEPT ![v] = r.view] ELSE views
       /\ op' = Call(kind, v, d, IF r.ok THEN <<r.view.pointer, r.view.size>> ELSE <<0, 0>>,
                     <<>>, Passed(r.ok))
  /\ UNCHANGED <<blobs, heap, misuse>>

\* const void* p = view.Data(offset);
ViewData(v, offset) ==
  /\ Running /\ views[v].kind # "none"
  /\ LET r == ViewDataAt(views[v], offset) IN
       op' = Call("ViewData", v, 0, <<0, 0>>, <<>>, Passed(r.ok))
  /\ UNCHANGED <<blobs, heap, views, misuse>>

\* view.As<T>(offset), with sizeof(T) = sizeofT: *Pointer<T>(offset) reads
\* sizeof(T) bytes at the address; reading outside a live allocation is undefined.
ViewAs(v, offset, sizeofT) ==
  /\ Running /\ views[v].kind # "none"
  /\ LET r == ViewPointer(views[v], offset) IN
       IF ~r.ok
       THEN op' = Call("ViewAs", v, 0, <<0, 0>>, <<>>, "violation")
       ELSE \E o \in Outcomes(~Readable(heap, r.ptr, sizeofT)) :
              op' = Call("ViewAs", v, 0, <<0, 0>>, <<>>, o)
  /\ UNCHANGED <<blobs, heap, views, misuse>>

\* view.SubView(offset) or span.SubSpan(offset); the result is a temporary.
SubView(v, offset) ==
  /\ Running /\ views[v].kind # "none"
  /\ LET r == SubViewOf(views[v], offset) IN
       op' = Call("SubView", v, 0, IF r.ok THEN <<r.view.pointer, r.view.size>> ELSE <<0, 0>>,
                  <<>>, Passed(r.ok))
  /\ UNCHANGED <<blobs, heap, views, misuse>>

\* view.Slice(begin, end) or span.Slice(begin, end); the result is a temporary.
Slice(v, begin, end) ==
  /\ Running /\ views[v].kind # "none"
  /\ LET r == SliceOf(views[v], begin, end) IN
       op' = Call("Slice", v, 0, IF r.ok THEN <<r.view.pointer, r.view.size>> ELSE <<0, 0>>,
                  <<>>, Passed(r.ok))
  /\ UNCHANGED <<blobs, heap, views, misuse>>

\* The calls on Blob variables, with adoption of memory the caller owns.
BlobNext ==
  \/ \E d \in Slots : BlobDefault(d)
  \/ \E d \in Slots, n \in 0..MaxSize : BlobSized(d, n)
  \/ \E d \in Slots, p \in CallerOwned(heap) \cup {NULL} :
       \E n \in StatedSizes(heap, p) : BlobAdopt(d, p, n)
  \/ \E d \in Slots,
        p \in {q \in CallerOwned(heap) : heap[RegionOf(q)].alloc = "new[]"} \cup {NULL} :
       \E sizeofT \in {1, 2}, elements \in 0..MaxSize :
         /\ sizeofT * elements \in StatedSizes(heap, p)
         /\ BlobAdoptUnique(d, p, sizeofT, elements)
  \/ \E d, s \in Slots : BlobMove(d, s)
  \/ \E d, s \in Slots : MoveAssign(d, s)
  \/ \E d \in Slots : Destroy(d)
  \/ \E a, b \in Slots : Swap(a, b)
  \/ \E d \in Slots : Reset(d)
  \/ \E d \in Slots : Release(d)
  \/ \E d, s \in Slots : Copy(d, s)
  \/ \E d \in Slots : Clear(d)
  \/ \E alloc \in {"malloc", "new[]"}, r \in Regions, n \in 1..MaxSize :
       CallerAlloc(alloc, r, n)
  \/ \E p \in CallerOwned(heap) : CallerFree(p)

Next == BlobNext

\* The same, with adoption of an address a live Blob holds.
NextUnsafe ==
  \/ BlobNext
  \/ \E d, s \in Slots : BlobAdoptData(d, s)

Spec == Init /\ [][Next]_vars

SpecUnsafe == Init /\ [][NextUnsafe]_vars

\* Views and spans taken from Blobs, and the Blob calls that end or move the
\* memory they refer to.
NextView ==
  \/ \E d \in Slots, n \in 0..MaxSize : BlobSized(d, n)
  \/ \E d, s \in Slots : BlobMove(d, s)
  \/ \E d, s \in Slots : MoveAssign(d, s)
  \/ \E d \in Slots : Destroy(d)
  \/ \E d \in Slots : Reset(d)
  \/ \E d \in Slots : Release(d)
  \/ \E v \in ViewSlots, d \in Slots, kind \in {"view", "span"}, offset \in Offsets :
       TakeView(v, d, kind, offset)
  \/ \E v \in ViewSlots, offset \in Offsets : ViewData(v, offset)
  \/ \E v \in ViewSlots, offset \in Offsets, sizeofT \in {1, 2} : ViewAs(v, offset, sizeofT)
  \/ \E v \in ViewSlots, offset \in Offsets : SubView(v, offset)
  \/ \E v \in ViewSlots, begin, end \in Offsets : Slice(v, begin, end)

SpecView == Init /\ [][NextView]_vars

\* ------------------------------------------- range operations, equality
\* The values of size_t.
SizeT == 0..(SizeMod - 1)

\* The sizes of the element types T the calls are instantiated with.
ElementSizes == {1, 2}

\* Mutant of ViewOf: a range of no bytes is stored with a null address.
ViewOfNullWhenEmpty(kind, data, bytes) ==
  [kind |-> kind, pointer |-> IF bytes = 0 THEN NULL ELSE data, size |-> bytes]

\* BlobView::BlobView(const void* data, size_t bytes) and
\* BlobSpan::BlobSpan(void* data, size_t bytes), Blob.hpp:267-271, 364-368.
ViewOf(kind, data, bytes) == [kind |-> kind, pointer |-> data, size |-> bytes]

\* BlobView::BlobView() and BlobSpan::BlobSpan(), Blob.hpp:261-265, 358-362.
ViewDefaultOf(kind) == [kind |-> kind, pointer |-> NULL, size |-> 0]

\* BlobView::BlobView(const BlobSpan& other), Blob.hpp:291-294.
ViewOfSpan(other) == ViewOf("view", other.pointer, other.size)

\* Empty, Size and Data() of a view or span, Blob.hpp:296-309, 388-401.
ViewEmpty(v) == v.pointer = NULL \/ v.size = 0
ViewSize(v) == v.size
ViewPtr(v) == v.pointer

\* BlobView::SubView(offset, bytes) and BlobSpan::SubSpan(offset, bytes),
\* Blob.hpp:336-340, 428-432; offset + bytes is computed in size_t.
WindowOf(v, offset, bytes) ==
  [ok |-> ASSERT(Wrap(offset + bytes) <= v.size) /\ ViewDataAt(v, offset).ok,
   view |-> ViewOf(v.kind, ViewDataAt(v, offset).ptr, bytes)]

\* Blob::Span(offset, size) and Blob::View(offset, size), Blob.hpp:543-547,
\* 554-558.
BlobWindowOf(b, kind, offset, size) ==
  [ok |-> ASSERT(Wrap(offset + size) <= b.size) /\ BlobDataAt(b, offset).ok,
   view |-> ViewOf(kind, BlobDataAt(b, offset).ptr, size)]

\* Blob::Pointer<T>(offset), Blob.hpp:512-524.
BlobPointer(b, offset) ==
  [ok |-> ASSERT(offset <= b.size) /\ BlobDataAt(b, offset).ok,
   ptr |-> BlobDataAt(b, offset).ptr]

\* BlobView::ArrayView<T>(offset, count) and BlobSpan::ArraySpan<T>(offset,
\* count), Blob.hpp:349-354, 441-446: the std::span's address and element count.
ArrayViewOf(v, offset, count, sizeofT) ==
  [ok |-> ASSERT(Wrap(offset + Wrap(count * sizeofT)) <= v.size)
            /\ ViewPointer(v, offset).ok,
   ptr |-> ViewPointer(v, offset).ptr, count |-> count]

\* Blob::ArrayView<T>(offset, count) and Blob::ArraySpan<T>(offset, count),
\* Blob.hpp:560-572.
BlobArrayViewOf(b, offset, count, sizeofT) ==
  [ok |-> ASSERT(Wrap(offset + Wrap(count * sizeofT)) <= b.size)
            /\ BlobPointer(b, offset).ok,
   ptr |-> BlobPointer(b, offset).ptr, count |-> count]

\* The bytes a view refers to, when they are bytes of a live allocation.
ViewBytes(h, v) ==
  IF Readable(h, v.pointer, v.size)
  THEN SubSeq(h[RegionOf(v.pointer)].bytes, OffsetOf(v.pointer) + 1,
              OffsetOf(v.pointer) + v.size)
  ELSE Indeterminate(v.size)

\* Mutant of ViewEq: equality of the bytes referred to, not of the addresses.
ViewEqByBytes(left, right) ==
  ViewBytes(heap, left) = ViewBytes(heap, right) /\ left.size = right.size

\* operator== of BlobView and BlobSpan in the four combinations,
\* Blob.hpp:597-600, 607-610, 617-620, 627-630.
ViewEq(left, right) == left.pointer = right.pointer /\ left.size = right.size

\* operator!= of BlobView and BlobSpan in the four combinations,
\* Blob.hpp:602-605, 612-615, 622-625, 632-635.
ViewNe(left, right) == left.pointer # right.pointer \/ left.size # right.size

\* The record of a call that names its arguments.
CallWith(name, blob, args, ret, outcome) ==
  [name |-> name, blob |-> blob, other |-> 0, ret |-> ret, freed |-> <<>>,
   outcome |-> outcome, args |-> args]

\* The addresses a caller constructs a view over: null, or the start of storage.
Storage == {NULL} \cup {Addr(r) : r \in Regions}

\* BlobView view; or BlobSpan span;
ViewDefault(v, kind) ==
  /\ Running
  /\ views' = [views EXCEPT ![v] = ViewDefaultOf(kind)]
  /\ op' = CallWith("ViewDefault", v, <<kind>>, <<NULL, 0>>, "ok")
  /\ UNCHANGED <<blobs, heap, misuse>>

\* BlobView view{data, bytes}; or BlobSpan span{data, bytes};
MakeView(v, kind, data, bytes) ==
  /\ Running
  /\ views' = [views EXCEPT ![v] = ViewOf(kind, data, bytes)]
  /\ op' = CallWith("MakeView", v, <<kind, data, bytes>>, <<data, bytes>>, "ok")
  /\ UNCHANGED <<blobs, heap, misuse>>

\* view.SubView(offset, bytes) or span.SubSpan(offset, bytes); the result is a
\* temporary.
Window(v, offset, bytes) ==
  /\ Running /\ views[v].kind # "none"
  /\ LET r == WindowOf(views[v], offset, bytes) IN
       op' = CallWith("Window", v, <<offset, bytes>>,
                      IF r.ok THEN <<r.view.pointer, r.view.size>> ELSE <<0, 0>>,
                      Passed(r.ok))
  /\ UNCHANGED <<blobs, heap, views, misuse>>

\* view.ArrayView<T>(offset, count) or span.ArraySpan<T>(offset, count), with
\* sizeof(T) = sizeofT; the std::span returned is (address, count).
ArrayView(v, offset, count, sizeofT) ==
  /\ Running /\ views[v].kind # "none"
  /\ LET r == ArrayViewOf(views[v], offset, count, sizeofT) IN
       op' = CallWith("ArrayView", v, <<offset, count, sizeofT>>,
                      IF r.ok THEN <<r.ptr, r.count>> ELSE <<0, 0>>, Passed(r.ok))
  /\ UNCHANGED <<blobs, heap, views, misuse>>

\* view == other and view != other, other a temporary BlobView or BlobSpan over
\* (data, bytes); ret is the pair of results.
ViewEquals(v, kind, data, bytes) ==
  /\ Running /\ views[v].kind # "none"
  /\ LET other == ViewOf(kind, data, bytes) IN
       op' = CallWith("ViewEquals", v, <<kind, data, bytes>>,
                      <<ViewEq(views[v], other), ViewNe(views[v], other)>>, "ok")
  /\ UNCHANGED <<blobs, heap, views, misuse>>

\* BlobView(span) == span and BlobView(span) != span, span a BlobSpan variable.
ViewConverted(v) ==
  /\ Running /\ views[v].kind = "span"
  /\ LET converted == ViewOfSpan(views[v]) IN
       op' = CallWith("ViewConverted", v, <<converted.kind>>,
                      <<ViewEq(converted, views[v]), ViewNe(converted, views[v])>>, "ok")
  /\ UNCHANGED <<blobs, heap, views, misuse>>

\* blob.Data(offset);
BlobData(d, offset) ==
  /\ Running /\ blobs[d].live
  /\ LET r == BlobDataAt(blobs[d], offset) IN
       op' = CallWith("BlobData", d, <<offset>>,
                      IF r.ok THEN <<r.ptr, 0>> ELSE <<0, 0>>, Passed(r.ok))
  /\ UNCHANGED <<blobs, heap, views, misuse>>

\* blob.View(offset, size) or blob.Span(offset, size); the result is a temporary.
BlobWindow(d, kind, offset, size) ==
  /\ Running /\ blobs[d].live
  /\ LET r == BlobWindowOf(blobs[d], kind, offset, size) IN
       op' = CallWith("BlobWindow", d, <<offset, size>>,
                      IF r.ok THEN <<r.view.pointer, r.view.size>> ELSE <<0, 0>>,
                      Passed(r.ok))
  /\ UNCHANGED <<blobs, heap, views, misuse>>

\* blob.As<T>(offset), with sizeof(T) = sizeofT: *Pointer<T>(offset) reads
\* sizeof(T) bytes at the address; reading outside a live allocation is undefined.
BlobAs(d, offset, sizeofT) ==
  /\ Running /\ blobs[d].live
  /\ LET r == BlobPointer(blobs[d], offset) IN
       IF ~r.ok
       THEN op' = CallWith("BlobAs", d, <<offset, sizeofT>>, <<0, 0>>, "violation")
       ELSE \E o \in Outcomes(~Readable(heap, r.ptr, sizeofT)) :
              op' = CallWith("BlobAs", d, <<offset, sizeofT>>, <<r.ptr, sizeofT>>, o)
  /\ UNCHANGED <<blobs, heap, views, misuse>>

\* blob.ArrayView<T>(offset, count) or blob.ArraySpan<T>(offset, count).
BlobArrayView(d, offset, count, sizeofT) ==
  /\ Running /\ blobs[d].live
  /\ LET r == BlobArrayViewOf(blobs[d], offset, count, sizeofT) IN
       op' = CallWith("BlobArrayView", d, <<offset, count, sizeofT>>,
                      IF r.ok THEN <<r.ptr, r.count>> ELSE <<0, 0>>, Passed(r.ok))
  /\ UNCHANGED <<blobs, heap, views, misuse>>

\* Views and spans over storage of the caller, and the calls on them.
NextRange ==
  \/ \E r \in Regions, n \in 1..MaxSize : CallerAlloc("malloc", r, n)
  \/ \E v \in ViewSlots, kind \in {"view", "span"} : ViewDefault(v, kind)
  \/ \E v \in ViewSlots, kind \in {"view", "span"}, data \in Storage, bytes \in SizeT :
       MakeView(v, kind, data, bytes)
  \/ \E v \in ViewSlots, offset \in SizeT : ViewData(v, offset)
  \/ \E v \in ViewSlots, offset \in SizeT : SubView(v, offset)
  \/ \E v \in ViewSlots, offset, bytes \in SizeT : Window(v, offset, bytes)
  \/ \E v \in ViewSlots, begin, end \in SizeT : Slice(v, begin, end)
  \/ \E v \in ViewSlots, offset, count \in SizeT, sizeofT \in ElementSizes :
       ArrayView(v, offset, count, sizeofT)
  \/ \E v \in ViewSlots, kind \in {"view", "span"}, data \in Storage, bytes \in SizeT :
       ViewEquals(v, kind, data, bytes)
  \/ \E v \in ViewSlots : ViewConverted(v)

SpecRange == Init /\ [][NextRange]_vars

\* Construction of Blobs, views and spans: by default, over storage of the
\* caller, and by adoption.
NextConstruct ==
  \/ \E d \in Slots : BlobDefault(d)
  \/ \E r \in Regions, n \in 1..MaxSize : CallerAlloc("malloc", r, n)
  \/ \E d \in Slots, p \in CallerOwned(heap) \cup {NULL} :
       \E n \in StatedSizes(heap, p) : BlobAdopt(d, p, n)
  \/ \E v \in ViewSlots, kind \in {"view", "span"} : ViewDefault(v, kind)
  \/ \E v \in ViewSlots, kind \in {"view", "span"}, data \in Storage, bytes \in SizeT :
       MakeView(v, kind, data, bytes)

SpecConstruct == Init /\ [][NextConstruct]_vars

\* Blobs, default-constructed or allocated, the views and spans taken from them
\* or default-constructed beside them, and the accessors of both.
NextAccess ==
  \/ \E d \in Slots : BlobDefault(d)
  \/ \E d \in Slots, n \in 0..MaxSize : BlobSized(d, n)
  \/ \E d \in Slots, offset \in SizeT : BlobData(d, offset)
  \/ \E v \in ViewSlots, d \in Slots, kind \in {"view", "span"}, offset \in SizeT :
       TakeView(v, d, kind, offset)
  \/ \E d \in Slots, kind \in {"view", "span"}, offset, size \in SizeT :
       BlobWindow(d, kind, offset, size)
  \/ \E d \in Slots, offset \in SizeT, sizeofT \in ElementSizes : BlobAs(d, offset, sizeofT)
  \/ \E d \in Slots, offset, count \in SizeT, sizeofT \in ElementSizes :
       BlobArrayView(d, offset, count, sizeofT)
  \/ \E v \in ViewSlots, kind \in {"view", "span"} : ViewDefault(v, kind)
  \/ \E v \in ViewSlots, offset \in SizeT : ViewData(v, offset)
  \/ \E v \in ViewSlots, offset \in SizeT : SubView(v, offset)
  \/ \E v \in ViewSlots, offset, bytes \in SizeT : Window(v, offset, bytes)
  \/ \E v \in ViewSlots, offset \in SizeT, sizeofT \in ElementSizes : ViewAs(v, offset, sizeofT)
  \/ \E v \in ViewSlots, offset, count \in SizeT, sizeofT \in ElementSizes :
       ArrayView(v, offset, count, sizeofT)

SpecAccess == Init /\ [][NextAccess]_vars

\* ---------------------------------------------------------------- claims
LiveSlots == {d \in Slots : blobs[d].live}
BlobOwned == {r \in Regions : heap[r].state # "unused" /\ heap[r].holder = "blob"}

\* C1: over the calls of Spec (construction by size, adoption of memory the
\* caller owns, move construction and assignment, swap, Reset, Release, Copy,
\* Clear, destruction) every allocation is passed to a deallocator at most once;
\* an allocation a Blob owns is held by a live Blob until it is freed, so once
\* every Blob is destroyed each has been freed exactly once unless Release handed
\* it to the caller; and Reset or destruction of an empty Blob frees nothing.
C1_AtMostOnce == \A r \in Regions : heap[r].frees <= 1
C1_NoLeak ==
  \A r \in BlobOwned :
    heap[r].state = "live" => \E d \in LiveSlots : blobs[d].data = Addr(r)
C1_ExactlyOnceAtEnd ==
  LiveSlots = {} => \A r \in BlobOwned : heap[r].state = "freed" /\ heap[r].frees = 1
C1_EmptyFreesNothing ==
  \A d \in Slots :
    (op'.name \in {"Reset", "Destroy"} /\ op'.blob = d /\ Empty(blobs[d]))
      => (heap' = heap /\ op'.freed = <<>>)
C2_NullIffZeroSize ==
  /\ \A d \in LiveSlots : (blobs[d].data = NULL) <=> (blobs[d].size = 0)
  /\ (op.name \in {"BlobAdopt", "BlobAdoptUnique"} /\ op.ret = <<0, 0>>)
       => (op.outcome = "violation" /\ ~blobs[op.blob].live)

\* C3, as stated: at most one live Blob holds a given non-null address, for any
\* sequence of calls, adoption of an address read through Data() included.
C3_ExclusiveAlways ==
  \A d1, d2 \in LiveSlots :
    (d1 # d2 /\ blobs[d1].data # NULL) => blobs[d1].data # blobs[d2].data

\* C3, amended: at most one live Blob holds a given non-null address as long as
\* every adopted address was memory the caller owned when it was adopted.
C3_ExclusiveUnlessMisused == ~misuse => C3_ExclusiveAlways

\* C3 witness: no misuse so far, the last call adopted memory of the caller, and
\* both Blobs hold an allocation.
C3_Witness ==
  /\ ~misuse
  /\ op.name = "BlobAdopt" /\ op.outcome = "ok"
  /\ \A d \in Slots : blobs[d].live /\ blobs[d].data # NULL

\* C4: every freed allocation was freed with the deallocator of the allocator
\* that made it.
C4_SameAllocator ==
  \A r \in Regions :
    heap[r].state = "freed" => heap[r].dealloc = DeallocatorOf(heap[r].alloc)

\* C5: Release on a Blob holding (a, n) returns exactly (a, n), frees nothing
\* and leaves the Blob with address null and size 0; and while the caller holds
\* an allocation (a released one included) only the caller's own free is a free
\* of it: no Reset, destruction or move assignment of a Blob frees it before or
\* after that.
C5_ReleaseStep ==
  \A d \in Slots :
    (op'.name = "Release" /\ op'.blob = d)
      => /\ op'.ret = <<blobs[d].data, blobs[d].size>>
         /\ blobs'[d] = [live |-> TRUE, data |-> NULL, size |-> 0]
         /\ op'.freed = <<>>
         /\ \A r \in Regions : /\ heap'[r].state = heap[r].state
                               /\ heap'[r].frees = heap[r].frees
C5_CallerHeldStep ==
  \A r \in Regions :
    (heap[r].state # "unused" /\ heap[r].holder = "caller")
      => \/ heap'[r].frees = heap[r].frees
         \/ op'.name = "CallerFree" /\ heap[r].state = "live"
         \/ heap[r].state = "freed" /\ heap'[r].state = "live"
C5_ReleaseRelinquishes == [][C5_ReleaseStep /\ C5_CallerHeldStep]_vars

\* C5 witness: the last call was a Release of a Blob that held an allocation,
\* the Blob is empty and the caller holds the allocation, still live.
C5_Witness ==
  /\ op.name = "Release" /\ op.ret[1] # NULL /\ op.ret[2] > 0
  /\ Empty(blobs[op.blob])
  /\ op.ret[1] \in CallerOwned(heap)

\* C6: a move from s into a distinct d (construction or assignment) leaves d
\* with s's previous (address, size) and s with (null, 0); a move assignment
\* passes d's previous allocation to std::free once and nothing else, a move
\* construction frees nothing, and the moved allocation is not freed.
C6_MoveStep ==
  \A d, s \in Slots :
    (d # s /\ op'.name \in {"BlobMove", "MoveAssign"} /\ op'.blob = d /\ op'.other = s)
      => /\ blobs'[d] = [live |-> TRUE, data |-> blobs[s].data, size |-> blobs[s].size]
         /\ blobs'[s] = [live |-> TRUE, data |-> NULL, size |-> 0]
         /\ op'.freed = IF op'.name = "MoveAssign" THEN Freed(blobs[d].data) ELSE <<>>
         /\ \A r \in Regions :
              IF op'.name = "MoveAssign" /\ blobs[d].data = Addr(r)
              THEN heap'[r].state = "freed" /\ heap'[r].frees = heap[r].frees + 1
              ELSE heap'[r] = heap[r]
         /\ blobs[s].data # NULL => heap'[RegionOf(blobs[s].data)] = heap[RegionOf(blobs[s].data)]
C6_MoveTransfers == [][C6_MoveStep]_vars

\* C6 witness: the last call was a move assignment between two Blobs that freed
\* the destination's allocation, and the destination holds the moved one.
C6_Witness ==
  /\ op.name = "MoveAssign" /\ op.blob # op.other /\ op.freed # <<>>
  /\ blobs[op.blob].data # NULL /\ blobs[op.blob].data # op.freed[1]
  /\ blobs[op.other].data = NULL

\* C7: Reset is idempotent. After a Reset the Blob has address null and size 0
\* and is Empty; a Reset that follows a Reset of the same Blob changes neither
\* the Blobs nor the heap and frees nothing; and from every Blob state a second
\* Reset gives the Blob and the heap of the first.
C7_AfterReset ==
  op.name = "Reset"
    => /\ blobs[op.blob] = [live |-> TRUE, data |-> NULL, size |-> 0]
       /\ Empty(blobs[op.blob])
C7_TwiceIsOnce ==
  \A d \in LiveSlots :
    LET r1 == ResetOf(blobs[d])
        h1 == StdFree(heap, r1.freed)
        r2 == ResetOf(r1.blob)
    IN /\ r2.blob = r1.blob
       /\ r2.freed = NULL
       /\ StdFree(h1, r2.freed) = h1
C7_SecondResetStep ==
  (op.name = "Reset" /\ op'.name = "Reset" /\ op'.blob = op.blob)
    => (blobs' = blobs /\ heap' = heap /\ op'.freed = <<>>)
C7_ResetIdempotent ==
  /\ [](C7_AfterReset /\ C7_TwiceIsOnce)
  /\ [][C7_SecondResetStep]_vars

\* C7 witness: a Reset that freed nothing was called on a Blob whose allocation
\* an earlier call freed.
C7_Witness ==
  /\ op.name = "Reset" /\ op.freed = <<>>
  /\ \E r \in BlobOwned : heap[r].state = "freed" /\ heap[r].dealloc = "free"
  /\ \A d \in Slots : d # op.blob => ~blobs[d].live

\* The bytes a Blob holds, when its address is a live allocation of its size.
HasBytes(h, b) ==
  IsLive(h, b.data) /\ Len(h[RegionOf(b.data)].bytes) = b.size

\* C8: Copy on a non-empty Blob returns a new Blob with another address, the
\* same size and the same bytes, and leaves the source's address, size and
\* bytes as they were; Copy on an empty Blob returns an empty Blob and allocates
\* nothing.
C8_CopyStep ==
  \A d, s \in Slots :
    (op'.name = "Copy" /\ op'.blob = d /\ op'.other = s)
      => /\ blobs'[s] = blobs[s]
         /\ \A r \in Regions : heap[r].state = "live" => heap'[r] = heap[r]
         /\ IF ~Empty(blobs[s])
            THEN /\ op'.outcome = "ok"
                 /\ blobs'[d].live
                 /\ blobs'[d].data # blobs[s].data
                 /\ blobs'[d].size = blobs[s].size
                 /\ HasBytes(heap', blobs'[d]) /\ HasBytes(heap', blobs'[s])
                 /\ heap'[RegionOf(blobs'[d].data)].bytes
                      = heap'[RegionOf(blobs'[s].data)].bytes
            ELSE /\ blobs'[d] = [live |-> TRUE, data |-> NULL, size |-> 0]
                 /\ heap' = heap
C8_CopyDuplicates == [][C8_CopyStep]_vars

\* C9: constructing a Blob of s > 0 bytes yields a Blob that is not Empty, has
\* Size s and a non-null Data, whatever std::malloc returned; constructing with
\* s = 0 is a contract violation and yields no Blob.  (op.ret[2] is s.)
C9_CreateYieldsBlob ==
  op.name = "BlobSized"
    => IF op.ret[2] > 0
       THEN /\ op.outcome = "ok"
            /\ blobs[op.blob].live
            /\ ~Empty(blobs[op.blob])
            /\ Size(blobs[op.blob]) = op.ret[2]
            /\ Data(blobs[op.blob]) # NULL
       ELSE op.outcome = "violation" /\ ~blobs[op.blob].live

\* C10: no Reset, Release, move construction, move assignment or destruction
\* of a Blob changes a view or span; Data(offset), SubView/SubSpan(offset),
\* Slice(begin, end) and As<T>(offset) of a view pass their assertions whenever
\* the offsets are within the view's size, whether or not the memory the view
\* refers to is still allocated.
C10_BlobCallKeepsViews ==
  op'.name \in {"Reset", "Release", "BlobMove", "MoveAssign", "Destroy"}
    => views' = views
C10_ChecksPass ==
  LET v == op'.blob IN
    /\ op'.name = "ViewData"
         => \A x \in Offsets :
              (ViewData(v, x) /\ x <= views[v].size) => op'.outcome = "ok"
    /\ op'.name = "SubView"
         => \A x \in Offsets :
              (SubView(v, x) /\ x <= views[v].size) => op'.outcome = "ok"
    /\ op'.name = "Slice"
         => \A x, y \in Offsets :
              (Slice(v, x, y) /\ x <= views[v].size /\ y <= views[v].size)
                => op'.outcome = "ok"
    /\ op'.name = "ViewAs"
         => \A x \in Offsets, k \in {1, 2} :
              (ViewAs(v, x, k) /\ x <= views[v].size) => op'.outcome # "violation"
C10_ViewOutlivesBlob == [][C10_BlobCallKeepsViews /\ C10_ChecksPass]_vars

\* C10 witness: As<T>(offset) of a view whose memory a Blob has freed went
\* through with no contract violation.
C10_Witness ==
  /\ op.name = "ViewAs" /\ op.outcome = "ok"
  /\ IsFreed(heap, views[op.blob].pointer)
  /\ views[op.blob].size > 0

\* C11: a windowed sub-range call (SubView/SubSpan(offset, bytes) of a view or
\* span, View/Span(offset, size) of a Blob) on a range of size n returns only
\* when offset <= n and offset + bytes <= n as integers, the result is then
\* (Data(offset), bytes), and every other argument pair is a contract violation.
C11_WindowInside ==
  op.name \in {"Window", "BlobWindow"}
    => LET parent == IF op.name = "Window"
                     THEN [pointer |-> views[op.blob].pointer, size |-> views[op.blob].size]
                     ELSE [pointer |-> blobs[op.blob].data, size |-> blobs[op.blob].size]
           offset == op.args[1]
           bytes == op.args[2]
           inside == offset <= parent.size /\ offset + bytes <= parent.size
       IN /\ op.outcome = "ok" => (inside /\ op.ret = <<parent.pointer + offset, bytes>>)
          /\ ~inside => op.outcome = "violation"

\* C12: SubView(offset)/SubSpan(offset) on a view or span v of size n returns
\* (v.Data(offset), n - offset) for every offset <= n; SubView(0) equals v,
\* SubView(n) has size 0 and address v.Data(n); offset > n is a contract
\* violation.
C12_SubViewStep ==
  op'.name = "SubView"
    => LET v == views[op'.blob]
           result == ViewOf(v.kind, op'.ret[1], op'.ret[2])
       IN \A offset \in SizeT :
            SubView(op'.blob, offset)
              => IF offset <= v.size
                 THEN /\ op'.outcome = "ok"
                      /\ op'.ret = <<v.pointer + offset, v.size - offset>>
                      /\ op'.ret[1] = ViewDataAt(v, offset).ptr
                      /\ offset = 0 => ViewEq(result, v) /\ ~ViewNe(result, v)
                      /\ offset = v.size => ViewSize(result) = 0 /\ ViewEmpty(result)
                 ELSE op'.outcome = "violation"
C12_SubViewToEnd == [][C12_SubViewStep]_vars

\* C12 witness: SubView(n) of a view of size n > 0 over storage returned the
\* empty view at the one-past-end address.
C12_Witness ==
  /\ op.name = "SubView" /\ op.outcome = "ok"
  /\ views[op.blob].size > 0 /\ views[op.blob].pointer # NULL
  /\ op.ret = <<views[op.blob].pointer + views[op.blob].size, 0>>

\* C13: Slice(a, b) on a view or span v of size n with a <= b <= n returns the
\* result of size b - a at address v.Data(a); Slice(0, n) equals v, Slice(n, n)
\* is empty at v.Data(n); and the result is that of SubView(a, b - a).
C13_SliceStep ==
  op'.name = "Slice"
    => LET v == views[op'.blob]
           result == ViewOf(v.kind, op'.ret[1], op'.ret[2])
       IN \A a, b \in SizeT :
            (Slice(op'.blob, a, b) /\ a <= b /\ b <= v.size)
              => /\ op'.outcome = "ok"
                 /\ op'.ret = <<v.pointer + a, b - a>>
                 /\ op'.ret[1] = ViewDataAt(v, a).ptr
                 /\ (a = 0 /\ b = v.size) => ViewEq(result, v)
                 /\ (a = v.size /\ b = v.size)
                      => ViewSize(result) = 0 /\ ViewPtr(result) = ViewDataAt(v, v.size).ptr
                 /\ WindowOf(v, a, b - a).ok /\ WindowOf(v, a, b - a).view = result
C13_SliceInOrder == [][C13_SliceStep]_vars

\* C13 witness: a Slice strictly inside a view over storage returned a result
\* smaller than the view, at a later address.
C13_Witness ==
  /\ op.name = "Slice" /\ op.outcome = "ok"
  /\ views[op.blob].pointer # NULL
  /\ op.ret[1] > views[op.blob].pointer
  /\ op.ret[2] > 0 /\ op.ret[2] < views[op.blob].size - (op.ret[1] - views[op.blob].pointer)

\* C14, as stated: Slice(begin, end) with begin <= n, end <= n and begin > end
\* raises no contract violation and returns the result at Data(begin) of size
\* (end - begin) mod 2^w, which is larger than n.
C14_WrappedStepLarger ==
  op'.name = "Slice"
    => LET v == views[op'.blob] IN
         \A begin, end \in SizeT :
           (Slice(op'.blob, begin, end) /\ begin <= v.size /\ end <= v.size /\ begin > end)
             => /\ op'.outcome = "ok"
                /\ op'.ret = <<v.pointer + begin, SizeMod + end - begin>>
                /\ op'.ret[2] > v.size
C14_WrappedAlwaysLarger == [][C14_WrappedStepLarger]_vars

\* C14, amended: Slice(begin, end) with begin <= n, end <= n and begin > end
\* raises no contract violation and returns the result at Data(begin) of size
\* (end - begin) mod 2^w = 2^w - (begin - end); that size is larger than n exactly
\* when begin - end < 2^w - n, so for every parent with n < 2^(w-1).
C14_WrappedStep ==
  op'.name = "Slice"
    => LET v == views[op'.blob] IN
         \A begin, end \in SizeT :
           (Slice(op'.blob, begin, end) /\ begin <= v.size /\ end <= v.size /\ begin > end)
             => /\ op'.outcome = "ok"
                /\ op'.ret = <<v.pointer + begin, SizeMod + end - begin>>
                /\ op'.ret[2] > v.size <=> begin - end < SizeMod - v.size
                /\ 2 * v.size < SizeMod => op'.ret[2] > v.size
C14_SliceWraps == [][C14_WrappedStep]_vars

\* C14 witness: a Slice returned with no violation a result larger than its
\* parent, which only begin > end produces.
C14_Witness ==
  /\ op.name = "Slice" /\ op.outcome = "ok"
  /\ 2 * views[op.blob].size < SizeMod
  /\ op.ret[2] > views[op.blob].size

\* C15: As<T>(offset) / Pointer<T>(offset) on a Blob, view or span of size n
\* returns without a contract violation only when offset + sizeof(T) <= n.
C15_BlobAccessInside ==
  (op.name = "BlobAs" /\ op.outcome # "violation")
    => op.args[1] + op.args[2] <= blobs[op.blob].size
C15_ViewAccessStep ==
  op'.name = "ViewAs"
    => \A offset \in SizeT, sizeofT \in ElementSizes :
         (ViewAs(op'.blob, offset, sizeofT) /\ op'.outcome # "violation")
           => offset + sizeofT <= views[op'.blob].size
C15_TypedAccessInside == []C15_BlobAccessInside /\ [][C15_ViewAccessStep]_vars

\* C16: ArrayView<T>/ArraySpan<T>(offset, count) with k = sizeof(T) on a range
\* of size n returns only when offset + count * k <= n as integers, the result
\* then starts at Data(offset) and has count elements; every other call is a
\* contract violation.
C16_ArrayInside ==
  op.name \in {"ArrayView", "BlobArrayView"}
    => LET parent == IF op.name = "ArrayView"
                     THEN [pointer |-> views[op.blob].pointer, size |-> views[op.blob].size]
                     ELSE [pointer |-> blobs[op.blob].data, size |-> blobs[op.blob].size]
           offset == op.args[1]
           count == op.args[2]
           k == op.args[3]
           inside == offset + count * k <= parent.size
       IN /\ op.outcome = "ok" => (inside /\ op.ret = <<parent.pointer + offset, count>>)
          /\ ~inside => op.outcome = "violation"

\* C17: for views and spans x, y in the four type combinations, x == y exactly
\* when they have the same address and the same size, whatever the bytes, and
\* x != y is its negation; a span converted to a view equals the span; two
\* ranges of equal size and identical bytes over distinct allocations are unequal.
C17_IdentityEquality ==
  /\ op.name = "ViewEquals"
       => LET x == views[op.blob]
              y == ViewOf(op.args[1], op.args[2], op.args[3])
          IN /\ op.ret[1] <=> (ViewPtr(x) = ViewPtr(y) /\ ViewSize(x) = ViewSize(y))
             /\ op.ret[2] <=> ~op.ret[1]
             /\ (ViewPtr(x) # ViewPtr(y) /\ ViewSize(x) = ViewSize(y)
                   /\ ViewBytes(heap, x) = ViewBytes(heap, y))
                  => (~op.ret[1] /\ op.ret[2])
  /\ op.name = "ViewConverted" => op.ret = <<TRUE, FALSE>>

\* C17 witness: a view over one allocation was compared with a range of the same
\* size and the same bytes over another allocation, and they are unequal.
C17_Witness ==
  /\ op.name = "ViewEquals" /\ op.ret = <<FALSE, TRUE>>
  /\ views[op.blob].size > 0 /\ views[op.blob].size = op.args[3]
  /\ views[op.blob].pointer # op.args[2]
  /\ Readable(heap, views[op.blob].pointer, views[op.blob].size)
  /\ Readable(heap, op.args[2], op.args[3])
  /\ ViewBytes(heap, views[op.blob])
       = ViewBytes(heap, ViewOf(op.args[1], op.args[2], op.args[3]))

\* What C18 says of default construction and adoption: a default-constructed
\* Blob, view or span is Empty with Size 0 and Data null, and no Blob is adopted
\* over a range of size 0.
C18_DefaultsEmpty ==
  /\ op.name = "Blob"
       => /\ Empty(blobs[op.blob])
          /\ Size(blobs[op.blob]) = 0
          /\ Data(blobs[op.blob]) = NULL
  /\ op.name = "ViewDefault"
       => /\ ViewEmpty(views[op.blob])
          /\ ViewSize(views[op.blob]) = 0
          /\ ViewPtr(views[op.blob]) = NULL
  /\ (op.name = "BlobAdopt" /\ blobs[op.blob].live) => Size(blobs[op.blob]) # 0

\* C18, as stated: every default-constructed Blob, view or span, and every value
\* constructed over a range of size 0, is Empty with Size 0 and Data null.
C18_ZeroSizeIsNull ==
  /\ C18_DefaultsEmpty
  /\ (op.name = "MakeView" /\ op.args[3] = 0)
       => /\ ViewEmpty(views[op.blob])
          /\ ViewSize(views[op.blob]) = 0
          /\ ViewPtr(views[op.blob]) = NULL

\* C18, amended: every default-constructed Blob, view or span is Empty with Size
\* 0 and Data null; a view or span constructed over a range of size 0 is Empty
\* with Size 0 and its Data is the address it was given; no Blob is adopted over
\* a range of size 0.
C18_ZeroSizeKeepsAddress ==
  /\ C18_DefaultsEmpty
  /\ (op.name = "MakeView" /\ op.args[3] = 0)
       => /\ ViewEmpty(views[op.blob])
          /\ ViewSize(views[op.blob]) = 0
          /\ ViewPtr(views[op.blob]) = op.args[2]

\* C18 witness: a view was constructed over no bytes of storage that exists.
C18_Witness ==
  /\ op.name = "MakeView" /\ op.args[3] = 0
  /\ IsLive(heap, op.args[2])
  /\ ViewEmpty(views[op.blob])

\* C19: on a Blob with address null and size 0, Data(offset), View/Span(offset),
\* View/Span(offset, size), Pointer/As<T>(offset) and ArrayView/ArraySpan<T>(offset,
\* count) are contract violations, offset 0 included; on a view or span with
\* address null and size 0 the calls Data(0), SubView(0), SubView(0, 0),
\* Pointer/As<T>(0) and ArrayView<T>(0, 0) raise no violation and what they
\* return is empty (address null, no bytes or elements).
C19_EmptyBlobViolates ==
  LET d == IF op.name \in {"view", "span"} THEN op.other ELSE op.blob IN
    (op.name \in {"BlobData", "view", "span", "BlobWindow", "BlobAs", "BlobArrayView"}
       /\ blobs[d].data = NULL /\ blobs[d].size = 0)
      => op.outcome = "violation"
C19_EmptyViewReturns ==
  (op.name \in {"Window", "ArrayView"} /\ views[op.blob].pointer = NULL
     /\ views[op.blob].size = 0 /\ op.args[1] = 0 /\ op.args[2] = 0)
    => (op.outcome = "ok" /\ op.ret = <<NULL, 0>>)
C19_EmptyViewStep ==
  LET v == op'.blob IN
    (op'.name \in {"ViewData", "SubView", "ViewAs"}
       /\ views[v].pointer = NULL /\ views[v].size = 0)
      => /\ ViewData(v, 0) => (op'.outcome = "ok" /\ ViewDataAt(views[v], 0).ptr = NULL)
         /\ SubView(v, 0) => (op'.outcome = "ok" /\ op'.ret = <<NULL, 0>>)
         /\ \A sizeofT \in ElementSizes :
              ViewAs(v, 0, sizeofT)
                => (op'.outcome # "violation" /\ ViewPointer(views[v], 0).ptr = NULL)
C19_EmptyBlobStricter ==
  /\ [](C19_EmptyBlobViolates /\ C19_EmptyViewReturns)
  /\ [][C19_EmptyViewStep]_vars

\* C19 witness: View(0, 0) on a default-constructed Blob ended in a contract
\* violation.
C19_Witness ==
  /\ op.name = "BlobWindow" /\ op.args = <<0, 0>> /\ op.outcome = "violation"
  /\ blobs[op.blob] = BlobDefaultOf

\* C20: a move assignment of a non-empty Blob to itself passes its allocation to
\* std::free once and nothing else, leaves the Blob with address null and size
\* 0, and leaves no allocation freed twice or live without a Blob holding it.
C20_SelfMoveStep ==
  \A d \in Slots :
    (op'.name = "MoveAssign" /\ op'.blob = d /\ op'.other = d /\ ~Empty(blobs[d]))
      => /\ blobs'[d] = [live |-> TRUE, data |-> NULL, size |-> 0]
         /\ (blobs'[d].data = NULL) <=> (blobs'[d].size = 0)
         /\ op'.freed = <<blobs[d].data>>
         /\ \A r \in Regions :
              IF blobs[d].data = Addr(r)
              THEN /\ heap[r].state = "live" /\ heap[r].frees = 0
                   /\ heap'[r].state = "freed" /\ heap'[r].frees = 1
              ELSE heap'[r] = heap[r]
         /\ \A e \in Slots : e # d => blobs'[e] = blobs[e]
C20_SelfMoveAssign == [](C1_AtMostOnce /\ C1_NoLeak) /\ [][C20_SelfMoveStep]_vars

\* C20 witness: the last call was a move assignment of a Blob to itself, it
\* freed the Blob's allocation and the Blob is empty.
C20_Witness ==
  /\ op.name = "MoveAssign" /\ op.blob = op.other /\ op.freed # <<>>
  /\ blobs[op.blob] = [live |-> TRUE, data |-> NULL, size |-> 0]
  /\ heap[RegionOf(op.freed[1])].frees = 1
====
